---------------------------- MODULE Spec2Model ----------------------------
(***************************************************************************)
(* Model of the Parakeet ASR serving harness:                              *)
(*   serve.py           the Flask service (load_model, process_audio,      *)
(*                      health_check, invoke)                              *)
(*   inference.py       the SageMaker handler (input_fn, predict_fn)       *)
(*   deploy_parakeet.py the provisioning client (deploy, cleanup)          *)
(* Text is a sequence of one-character strings, bytes are a sequence of    *)
(* numbers 0..255.                                                         *)
(***************************************************************************)
EXTENDS Integers, Sequences, FiniteSets, TLC

\* ------------------------------------------------------------------------
\* Bounds of the model
\* ------------------------------------------------------------------------
\* longest byte sequence a client encodes
MaxBytes == 2
\* temporary files that may sit on disk at once (leaked ones included)
MaxFiles == 2
\* load_model calls made after the first one
MaxReloads == 1
\* deploy() runs, each with its own timestamped names
MaxDeploys == 2

\* ------------------------------------------------------------------------
\* Text helpers (str.startswith, "x" in s, str.split(",", 1)[1])
\* ------------------------------------------------------------------------
StartsWith(s, p) ==
    /\ Len(s) >= Len(p)
    /\ SubSeq(s, 1, Len(p)) = p

Contains(s, c) == \E i \in 1..Len(s) : s[i] = c

FirstIndex(s, c) == CHOOSE i \in 1..Len(s) : s[i] = c /\ \A j \in 1..(i-1) : s[j] # c

\* s.split(",", 1)[1]; only used where "," is in s
AfterFirstComma(s) == SubSeq(s, FirstIndex(s, ",") + 1, Len(s))

DataPrefix == <<"d","a","t","a",":">>
HttpPrefix == <<"h","t","t","p",":","/","/">>
HttpsPrefix == <<"h","t","t","p","s",":","/","/">>

\* ------------------------------------------------------------------------
\* base64 (Python's base64.b64encode / base64.b64decode, validate=False)
\* ------------------------------------------------------------------------
B64Alphabet ==
    << "A","B","C","D","E","F","G","H","I","J","K","L","M","N","O","P",
       "Q","R","S","T","U","V","W","X","Y","Z","a","b","c","d","e","f",
       "g","h","i","j","k","l","m","n","o","p","q","r","s","t","u","v",
       "w","x","y","z","0","1","2","3","4","5","6","7","8","9","+","/" >>

B64Chars == { B64Alphabet[i] : i \in 1..64 }

\* characters outside ASCII: b64decode(str) refuses the whole string
NonAscii == { "U+00E9" }

B64Value(c) == (CHOOSE i \in 1..64 : B64Alphabet[i] = c) - 1

B64Char(v) == B64Alphabet[v + 1]

RECURSIVE b64encode(_)
b64encode(b) ==
    IF Len(b) = 0 THEN << >>
    ELSE IF Len(b) = 1 THEN
        << B64Char(b[1] \div 4), B64Char((b[1] % 4) * 16), "=", "=" >>
    ELSE IF Len(b) = 2 THEN
        << B64Char(b[1] \div 4),
           B64Char((b[1] % 4) * 16 + b[2] \div 16),
           B64Char((b[2] % 16) * 4), "=" >>
    ELSE
        << B64Char(b[1] \div 4),
           B64Char((b[1] % 4) * 16 + b[2] \div 16),
           B64Char((b[2] % 16) * 4 + b[3] \div 64),
           B64Char(b[3] % 64) >> \o b64encode(SubSeq(b, 4, Len(b)))

\* binascii.a2b_base64 in its lenient mode: characters outside the alphabet
\* are skipped, a pad sequence that completes a quad ends the parse, and a
\* parse that ends inside a quad fails.  The result is [ok, bytes].
RECURSIVE a2b_base64(_, _, _, _, _, _)
a2b_base64(s, i, quad_pos, pads, leftchar, out) ==
    IF i > Len(s) THEN
        [ok |-> quad_pos = 0, bytes |-> out]
    ELSE IF s[i] = "=" THEN
        IF quad_pos >= 2 /\ quad_pos + pads + 1 >= 4
        THEN [ok |-> TRUE, bytes |-> out]
        ELSE a2b_base64(s, i + 1, quad_pos,
                        IF quad_pos >= 2 THEN pads + 1 ELSE pads, leftchar, out)
    ELSE IF s[i] \notin B64Chars THEN
        a2b_base64(s, i + 1, quad_pos, pads, leftchar, out)
    ELSE
        LET v == B64Value(s[i]) IN
        CASE quad_pos = 0 -> a2b_base64(s, i + 1, 1, 0, v, out)
          [] quad_pos = 1 -> a2b_base64(s, i + 1, 2, 0, v % 16,
                                        Append(out, leftchar * 4 + v \div 16))
          [] quad_pos = 2 -> a2b_base64(s, i + 1, 3, 0, v % 4,
                                        Append(out, leftchar * 16 + v \div 4))
          [] quad_pos = 3 -> a2b_base64(s, i + 1, 0, 0, 0,
                                        Append(out, leftchar * 64 + v))

b64decode(s) ==
    IF \E i \in 1..Len(s) : s[i] \in NonAscii
    THEN [ok |-> FALSE, bytes |-> << >>]
    ELSE a2b_base64(s, 1, 0, 0, 0, << >>)

\* ------------------------------------------------------------------------
\* Requests
\* ------------------------------------------------------------------------
ByteVals == {0, 255}

ByteSeqs == UNION { [1..n -> ByteVals] : n \in 0..MaxBytes }

\* "data:audio/wav;base64," followed by the payload
DataUrl(payload) ==
    <<"d","a","t","a",":","a","u","d","i","o","/","w","a","v",";",
      "b","a","s","e","6","4",",">> \o payload

\* The JSON value of the "audio" field.  t is its JSON type; a dict has the
\* key it carries ("none" is {}, "other" a dict with neither data nor path,
\* "both" one with data and path) and strOk says whether that key's value
\* is a string; s is the text.  enc and orig record how a client built the
\* text from the bytes orig ("bare", "dataurl") and are not read by the
\* handlers.
AudioValue(t, key, strOk, s, enc, orig) ==
    [t |-> t, key |-> key, strOk |-> strOk, s |-> s, enc |-> enc, orig |-> orig]

Plain(t) == AudioValue(t, "none", FALSE, << >>, "none", << >>)
Str(s) == AudioValue("str", "none", TRUE, s, "none", << >>)
Dict(key, strOk, s) == AudioValue("dict", key, strOk, s, "none", << >>)

EncodedAudio ==
    UNION { { AudioValue("str", "none", TRUE, b64encode(b), "bare", b),
              AudioValue("str", "none", TRUE, DataUrl(b64encode(b)), "dataurl", b),
              AudioValue("dict", "data", TRUE, b64encode(b), "bare", b),
              AudioValue("dict", "data", TRUE, DataUrl(b64encode(b)), "dataurl", b) }
            : b \in ByteSeqs }

LocalPath == <<"/","t","m","p","/","a",".","w","a","v">>
WindowsPath == <<"C",":","\\","a">>
HttpUrl == HttpPrefix \o <<"h","/","a">>
HttpsUrl == HttpsPrefix \o <<"h","/","a">>

OtherAudio ==
    { Plain("absent"), Plain("null"), Plain("false"), Plain("zero"),
      Plain("number"), Plain("emptylist"), Plain("list"),
      Str(<<"a","b","c">>), Str(<<"a">>), Str(<<"!","!","!","!">>),
      Str(<<"U+00E9">>), Str(DataPrefix \o <<"x","x">>),
      Str(LocalPath), Str(WindowsPath),
      Dict("none", FALSE, << >>), Dict("other", FALSE, << >>),
      Dict("data", FALSE, << >>), Dict("data", TRUE, <<"a","b","c">>),
      Dict("data", TRUE, DataPrefix \o <<"x","x">>),
      Dict("both", TRUE, <<"A","A","=","=">>),
      Dict("path", FALSE, << >>), Dict("path", TRUE, LocalPath),
      Dict("path", TRUE, HttpUrl), Dict("path", TRUE, HttpsUrl) }

AudioValues == EncodedAudio \cup OtherAudio

\* The request body: text that is no JSON, a JSON value that is no object,
\* or an object with its "audio" and "timestamps" fields.
Body(k, audio, timestamps) == [k |-> k, audio |-> audio, timestamps |-> timestamps]

Bodies ==
    { Body(k, Plain("absent"), "absent") : k \in {"invalid", "null", "array", "number"} }
    \cup { Body("object", a, ts) : a \in AudioValues, ts \in {"absent", "false", "true"} }

JsonType == "application/json"

OtherTypes == { "text/plain", "application/json; charset=utf-8", "none" }

\* A body that is never parsed is drawn from a few shapes only
Requests ==
    { [handler |-> h, content_type |-> JsonType, body |-> b]
        : h \in {"invoke", "predict_fn"}, b \in Bodies }
    \cup { [handler |-> h, content_type |-> ct, body |-> b]
        : h \in {"invoke", "predict_fn"}, ct \in OtherTypes,
          b \in { Body("invalid", Plain("absent"), "absent"),
                  Body("object", Plain("absent"), "true"),
                  Body("object", Str(<<"A","A","=","=">>), "false") } }

NoRequest == [handler |-> "none", content_type |-> "none",
              body |-> Body("invalid", Plain("absent"), "absent")]

\* Python truthiness of the "audio" value (`not audio_source`)
Falsy(a) ==
    \/ a.t \in {"absent", "null", "false", "zero", "emptylist"}
    \/ a.t = "str" /\ a.s = << >>
    \/ a.t = "dict" /\ a.key = "none"

\* ------------------------------------------------------------------------
\* The world outside the handlers
\* ------------------------------------------------------------------------
\* open(path, "rb").read() and requests.get(url): the bytes, or a failure
ReadOutcomes == { [ok |-> FALSE, bytes |-> << >>] }
                \cup { [ok |-> TRUE, bytes |-> b] : b \in {<< >>, <<82>>} }

\* What model.transcribe returns: it raises, or output[0] is a hypothesis
\* object (text, and a timestamp attribute of some shape), or a bare string.
\*   hyp_words       timestamp = {"word": [objects with word/start/end]}
\*   hyp_words_dict  timestamp = {"word": [dicts]} (w.word raises)
\*   hyp_words_empty timestamp = {"word": []}
\*   hyp_ts_noword   timestamp = a non-empty dict without "word"
\*   hyp_ts_none     timestamp = None or {}
\*   hyp_no_ts       no timestamp attribute
\*   str             output[0] is a str
TranscribeOutcomes ==
    { "raise", "hyp_words", "hyp_words_dict", "hyp_words_empty",
      "hyp_ts_noword", "hyp_ts_none", "hyp_no_ts", "str" }

None == [none |-> TRUE, bytes |-> << >>]
Bytes(b) == [none |-> FALSE, bytes |-> b]

NoFile == 0

VARIABLES
    \* serve.py globals and the position of the load_model call
    model, model_loaded, loadPc, loadCalls, warmup,
    \* the request in flight, its handler's position and locals
    req, pc, audio_data, f, temp_file,
    \* whether ingestion read a file or URL, and how that went
    read,
    \* temporary files on disk, those the request in flight created
    disk, created,
    \* what the request did and returned
    ingested, modelCalls, resp,
    \* the last answer of GET /ping
    ping,
    \* the cloud's resources, by the number of the deploy() that named them
    cloud, deploys,
    \* deploy(): position, its names' number, waiter attempts made, creates
    \* that succeeded, calls issued, the value returned
    dPc, dId, dAttempts, dCreated, dCalls, dResult,
    \* cleanup(): position, the endpoint named, the names resolved, waiter
    \* attempts made, calls issued
    cPc, cTarget, config_name, model_name, cAttempts, cCalls,
    \* list_endpoints(): position, the endpoints it printed
    lPc, endpoints,
    \* inference.py: the position of the model_fn call, the calls made, the
    \* module's global model, the warm-up's temporary file and how the
    \* warm-up transcription went
    mPc, mCalls, fn_model, fn_f, fn_warmup

serveVars == << model, model_loaded, loadPc, loadCalls, warmup, req, pc, read,
                audio_data, f, temp_file, disk, created, ingested,
                modelCalls, resp, ping >>

provVars == << cloud, deploys, dPc, dId, dAttempts, dCreated, dCalls, dResult,
               cPc, cTarget, config_name, model_name, cAttempts, cCalls,
               lPc, endpoints >>

fnVars == << mPc, mCalls, fn_model, fn_f, fn_warmup >>

vars == << serveVars, provVars, fnVars >>

NoResponse == [kind |-> "none", status |-> 0, keys |-> {}, ts |-> "absent", err |-> ""]

InitServe ==
    /\ model = 0
    /\ model_loaded = FALSE
    /\ loadPc = "idle"
    /\ loadCalls = 0
    /\ warmup = "none"
    /\ req = NoRequest
    /\ pc = "idle"
    /\ audio_data = None
    /\ read = "none"
    /\ f = NoFile
    /\ temp_file = NoFile
    /\ disk = {}
    /\ created = {}
    /\ ingested = FALSE
    /\ modelCalls = 0
    /\ resp = NoResponse
    /\ ping = [status |-> 0, completed |-> FALSE]

loadVars == << model, model_loaded, loadPc, loadCalls, warmup >>
reqVars == << req, pc, read, audio_data, f, temp_file, disk, created, ingested,
              modelCalls, resp >>

\* ------------------------------------------------------------------------
\* serve.py: load_model, one call at a time (it is called from __main__)
\* ------------------------------------------------------------------------
\* load_model without its guard: every call fetches
LoadCallNoGuard ==
    /\ loadPc \in {"idle", "returned"}
    /\ loadCalls < 1 + MaxReloads
    /\ loadCalls' = loadCalls + 1
    /\ loadPc' = "fetch"
    /\ UNCHANGED << model, model_loaded, warmup, reqVars, ping, provVars, fnVars >>

\* lines 36-37: the guard; a call made when loaded returns the model
LoadCall ==
    /\ loadPc \in {"idle", "returned"}
    /\ loadCalls < 1 + MaxReloads
    /\ loadCalls' = loadCalls + 1
    /\ loadPc' = IF model_loaded THEN "returned" ELSE "fetch"
    /\ UNCHANGED << model, model_loaded, warmup, reqVars, ping, provVars, fnVars >>

\* lines 47-51: from_pretrained, to(device), eval; an exception leaves
\* load_model (and, called from __main__, ends the start-up)
LoadFetch ==
    /\ loadPc = "fetch"
    /\ \E o \in {"ok", "fetch_raises", "to_raises"} :
         /\ model' = IF o = "fetch_raises" THEN model ELSE loadCalls
         /\ loadPc' = IF o = "ok" THEN "warmup" ELSE "raised"
    /\ UNCHANGED << model_loaded, loadCalls, warmup, reqVars, ping, provVars, fnVars >>

\* lines 58-67: the warm-up; its temporary file is delete=True and any
\* exception is logged
LoadWarmup ==
    /\ loadPc = "warmup"
    /\ \E o \in {"ok", "write_raises", "transcribe_raises"} :
         warmup' = IF o = "ok" THEN "complete" ELSE "failed"
    /\ loadPc' = "set"
    /\ UNCHANGED << model, model_loaded, loadCalls, reqVars, ping, provVars, fnVars >>

\* lines 69-70
LoadFinish ==
    /\ loadPc = "set"
    /\ model_loaded' = TRUE
    /\ loadPc' = "returned"
    /\ UNCHANGED << model, loadCalls, warmup, reqVars, ping, provVars, fnVars >>

\* ------------------------------------------------------------------------
\* serve.py: GET /ping
\* ------------------------------------------------------------------------
\* load_model has run to its end: its call returned (calls are made one
\* after the other, so a second call means the first returned)
LoadCompleted == loadPc = "returned" \/ loadCalls >= 2

\* the status, and whether load_model had completed when it was answered
health_check ==
    /\ ping' = [status |-> IF model_loaded THEN 200 ELSE 503,
                completed |-> LoadCompleted]
    /\ UNCHANGED << loadVars, reqVars, provVars, fnVars >>

\* ------------------------------------------------------------------------
\* A request arrives (at the Flask route, or at the SageMaker handler)
\* ------------------------------------------------------------------------
Arrive ==
    /\ pc = "idle"
    /\ Cardinality(disk) < MaxFiles
    /\ \E r \in Requests : req' = r
    /\ pc' = "parse"
    /\ UNCHANGED << audio_data, read, f, temp_file, disk, created, ingested,
                    modelCalls, resp, loadVars, ping, provVars, fnVars >>

\* The response has gone to the caller and the handler's frame is dropped
Reply ==
    /\ pc = "done"
    /\ req' = NoRequest
    /\ pc' = "idle"
    /\ audio_data' = None
    /\ read' = "none"
    /\ f' = NoFile
    /\ temp_file' = NoFile
    /\ created' = {}
    /\ ingested' = FALSE
    /\ modelCalls' = 0
    /\ resp' = NoResponse
    /\ UNCHANGED << disk, loadVars, ping, provVars, fnVars >>

Truthy(ts) == ts = "true"

\* The audio value names a local path or a URL, so ingesting it reads the
\* file system or the network; o is how that read went.
NamesPath(a) ==
    \/ a.t = "str" /\ ~StartsWith(a.s, DataPrefix)
                   /\ (Contains(a.s, "/") \/ Contains(a.s, "\\"))
    \/ a.t = "dict" /\ a.key = "path" /\ a.strOk

ReadOf(a, o) == IF ~NamesPath(a) THEN "none" ELSE IF o.ok THEN "ok" ELSE "failed"

\* tempfile's fresh name
FreshName == CHOOSE n \in 1..MaxFiles : n \notin disk /\ \A m \in 1..(n-1) : m \in disk

\* ------------------------------------------------------------------------
\* serve.py: process_audio and POST /invocations
\* ------------------------------------------------------------------------
process_audio(a, file, http) ==
    LET decode(s) == LET d == b64decode(s) IN IF d.ok THEN Bytes(d.bytes) ELSE None
        contents(o) == IF o.ok THEN Bytes(o.bytes) ELSE None
    IN
    IF a.t = "str" THEN
        IF StartsWith(a.s, DataPrefix)
        THEN decode(IF Contains(a.s, ",") THEN AfterFirstComma(a.s) ELSE a.s)
        ELSE IF Contains(a.s, "/") \/ Contains(a.s, "\\")
        THEN contents(file)
        ELSE decode(a.s)
    ELSE IF a.t = "dict" THEN
        IF a.key \in {"data", "both"} THEN
            IF ~a.strOk THEN None
            ELSE IF StartsWith(a.s, DataPrefix)
            THEN IF Contains(a.s, ",") THEN decode(AfterFirstComma(a.s)) ELSE None
            ELSE decode(a.s)
        ELSE IF a.key = "path" THEN
            IF ~a.strOk THEN None
            ELSE IF StartsWith(a.s, HttpPrefix) \/ StartsWith(a.s, HttpsPrefix)
            THEN contents(http)
            ELSE contents(file)
        ELSE None
    ELSE None

Http(status, keys, ts, err) ==
    [kind |-> "http", status |-> status, keys |-> keys, ts |-> ts, err |-> err]

\* a return of invoke, with its finally block (lines 186-191)
InvokeReturn(r) ==
    /\ resp' = r
    /\ pc' = "done"
    /\ disk' = IF temp_file # NoFile THEN disk \ {temp_file} ELSE disk

\* an except block that does not catch: the exception leaves invoke
InvokeExceptPropagates ==
    [kind |-> "raised", status |-> 0, keys |-> {}, ts |-> "absent", err |-> "exception"]

\* the except block (lines 182-184)
InvokeExcept == Http(500, {"error"}, "absent", "exception")

\* invoke parsing the body whatever the content type
InvokeParseAnyType ==
    /\ pc = "parse" /\ req.handler = "invoke"
    /\ IF req.body.k = "invalid"
       THEN InvokeReturn(InvokeExcept)
       ELSE pc' = "params" /\ UNCHANGED << resp, disk >>
    /\ UNCHANGED << req, read, audio_data, f, temp_file, created, ingested, modelCalls,
                    loadVars, ping, provVars, fnVars >>

\* lines 132-135
InvokeParse ==
    /\ pc = "parse" /\ req.handler = "invoke"
    /\ IF req.content_type # JsonType
       THEN InvokeReturn(Http(415, {"error"}, "absent", "Unsupported content type"))
       ELSE IF req.body.k = "invalid"
       THEN InvokeReturn(InvokeExcept)
       ELSE pc' = "params" /\ UNCHANGED << resp, disk >>
    /\ UNCHANGED << req, read, audio_data, f, temp_file, created, ingested, modelCalls,
                    loadVars, ping, provVars, fnVars >>

\* lines 138-143
InvokeParams ==
    /\ pc = "params" /\ req.handler = "invoke"
    /\ IF req.body.k # "object"
       THEN InvokeReturn(InvokeExcept)
       ELSE IF Falsy(req.body.audio)
       THEN InvokeReturn(Http(400, {"error"}, "absent", "Missing 'audio' field"))
       ELSE pc' = "audio" /\ UNCHANGED << resp, disk >>
    /\ UNCHANGED << req, read, audio_data, f, temp_file, created, ingested, modelCalls,
                    loadVars, ping, provVars, fnVars >>

\* invoke without the `audio_data is None` return
InvokeProcessAudioNoCheck ==
    /\ pc = "audio" /\ req.handler = "invoke"
    /\ ingested' = TRUE
    /\ \E o \in ReadOutcomes :
         /\ read' = ReadOf(req.body.audio, o)
         /\ audio_data' = process_audio(req.body.audio, o, o)
    /\ pc' = "mktemp"
    /\ UNCHANGED << resp, disk >>
    /\ UNCHANGED << req, f, temp_file, created, modelCalls, loadVars, ping, provVars, fnVars >>

\* lines 146-148
InvokeProcessAudio ==
    /\ pc = "audio" /\ req.handler = "invoke"
    /\ ingested' = TRUE
    /\ \E o \in ReadOutcomes :
         LET data == process_audio(req.body.audio, o, o) IN
         /\ read' = ReadOf(req.body.audio, o)
         /\ IF data = None
            THEN /\ InvokeReturn(Http(400, {"error"}, "absent", "Failed to process audio data"))
                 /\ UNCHANGED audio_data
            ELSE /\ audio_data' = data
                 /\ pc' = "mktemp"
                 /\ UNCHANGED << resp, disk >>
    /\ UNCHANGED << req, f, temp_file, created, modelCalls, loadVars, ping, provVars, fnVars >>

\* line 151: NamedTemporaryFile(suffix=".wav", delete=False)
InvokeMkTemp ==
    /\ pc = "mktemp" /\ req.handler = "invoke"
    /\ \/ /\ f' = FreshName
          /\ disk' = disk \cup {FreshName}
          /\ created' = created \cup {FreshName}
          /\ pc' = "write"
          /\ UNCHANGED resp
       \/ /\ InvokeReturn(InvokeExcept)
          /\ UNCHANGED << f, created >>
    /\ UNCHANGED << req, read, audio_data, temp_file, ingested, modelCalls, loadVars, ping, provVars, fnVars >>

\* lines 152-153: the write, then temp_file = f.name; the with block closes
\* the file and, delete=False, leaves it on disk
InvokeWrite ==
    /\ pc = "write" /\ req.handler = "invoke"
    /\ \/ /\ temp_file' = f
          /\ pc' = "transcribe"
          /\ UNCHANGED << resp, disk >>
       \/ /\ UNCHANGED temp_file
          /\ InvokeReturn(InvokeExcept)
    /\ UNCHANGED << req, read, audio_data, f, created, ingested, modelCalls, loadVars, ping, provVars, fnVars >>

\* lines 158-180 on what model.transcribe returned
InvokeResult(ts, o) ==
    IF Truthy(ts) THEN
        IF o \in {"raise", "str", "hyp_words_dict"}
        THEN InvokeExcept
        ELSE Http(200, {"text", "timestamps", "processing_time", "model"}, "words", "")
    ELSE
        IF o = "raise"
        THEN InvokeExcept
        ELSE Http(200, {"text", "processing_time", "model"}, "absent", "")

\* lines 156-191: model is the module global, None until load_model sets it
InvokeTranscribe ==
    /\ pc = "transcribe" /\ req.handler = "invoke"
    /\ IF model = 0
       THEN /\ InvokeReturn(InvokeExcept)
            /\ UNCHANGED modelCalls
       ELSE /\ modelCalls' = modelCalls + 1
            /\ \E o \in TranscribeOutcomes :
                 InvokeReturn(InvokeResult(req.body.timestamps, o))
    /\ UNCHANGED << req, read, audio_data, f, temp_file, created, ingested, loadVars, ping, provVars, fnVars >>

\* ------------------------------------------------------------------------
\* inference.py: input_fn and predict_fn
\* ------------------------------------------------------------------------
Result(keys, ts, err) ==
    [kind |-> "dict", status |-> 0, keys |-> keys, ts |-> ts, err |-> err]

\* an exception that leaves the handler's function
Raised == [kind |-> "raised", status |-> 0, keys |-> {}, ts |-> "absent", err |-> "exception"]

\* the except block (lines 136-138)
PredictExcept == Result({"error"}, "absent", "exception")

\* a return of predict_fn, with its finally block (lines 140-142)
PredictReturn(r) ==
    /\ resp' = r
    /\ pc' = "done"
    /\ disk' = IF temp_file # NoFile THEN disk \ {temp_file} ELSE disk

\* lines 54-58: the ValueError and json.loads' error leave input_fn
InputFn ==
    /\ pc = "parse" /\ req.handler = "predict_fn"
    /\ IF req.content_type # JsonType \/ req.body.k = "invalid"
       THEN resp' = Raised /\ pc' = "done"
       ELSE pc' = "params" /\ UNCHANGED resp
    /\ UNCHANGED << req, read, audio_data, f, temp_file, disk, created, ingested,
                    modelCalls, loadVars, ping, provVars, fnVars >>

\* lines 68-73
PredictParams ==
    /\ pc = "params" /\ req.handler = "predict_fn"
    /\ IF req.body.k # "object"
       THEN PredictReturn(PredictExcept)
       ELSE IF Falsy(req.body.audio)
       THEN PredictReturn(Result({"error"}, "absent", "Missing 'audio' field"))
       ELSE pc' = "audio" /\ UNCHANGED << resp, disk >>
    /\ UNCHANGED << req, read, audio_data, f, temp_file, created, ingested, modelCalls,
                    loadVars, ping, provVars, fnVars >>

\* lines 76-107: [raised, data]; an exception goes to the except block
predict_decode(a, file, http) ==
    LET raise == [raised |-> TRUE, data |-> None]
        value(d) == [raised |-> FALSE, data |-> d]
        decode(s) == LET d == b64decode(s) IN IF d.ok THEN value(Bytes(d.bytes)) ELSE raise
        contents(o) == IF o.ok THEN value(Bytes(o.bytes)) ELSE raise
    IN
    IF a.t = "str" THEN
        IF StartsWith(a.s, DataPrefix)
        THEN decode(IF Contains(a.s, ",") THEN AfterFirstComma(a.s) ELSE a.s)
        ELSE IF Contains(a.s, "/") \/ Contains(a.s, "\\")
        THEN contents(file)
        ELSE decode(a.s)
    ELSE IF a.t = "dict" THEN
        IF a.key \in {"data", "both"} THEN
            IF ~a.strOk THEN raise
            ELSE IF StartsWith(a.s, DataPrefix)
            THEN IF Contains(a.s, ",") THEN decode(AfterFirstComma(a.s)) ELSE raise
            ELSE decode(a.s)
        ELSE IF a.key = "path" THEN
            IF ~a.strOk THEN raise
            ELSE IF StartsWith(a.s, HttpPrefix) \/ StartsWith(a.s, HttpsPrefix)
            THEN contents(http)
            ELSE contents(file)
        ELSE value(None)
    ELSE value(None)

\* lines 76-110
PredictDecode ==
    /\ pc = "audio" /\ req.handler = "predict_fn"
    /\ ingested' = TRUE
    /\ \E o \in ReadOutcomes :
         LET d == predict_decode(req.body.audio, o, o) IN
         /\ read' = ReadOf(req.body.audio, o)
         /\ IF d.raised
            THEN PredictReturn(PredictExcept) /\ UNCHANGED audio_data
            ELSE IF d.data = None
            THEN /\ PredictReturn(Result({"error"}, "absent", "Failed to load audio"))
                 /\ UNCHANGED audio_data
            ELSE /\ audio_data' = d.data
                 /\ pc' = "mktemp"
                 /\ UNCHANGED << resp, disk >>
    /\ UNCHANGED << req, f, temp_file, created, modelCalls, loadVars, ping, provVars, fnVars >>

\* line 113: NamedTemporaryFile(suffix=".wav", delete=False)
PredictMkTemp ==
    /\ pc = "mktemp" /\ req.handler = "predict_fn"
    /\ \/ /\ f' = FreshName
          /\ disk' = disk \cup {FreshName}
          /\ created' = created \cup {FreshName}
          /\ pc' = "write"
          /\ UNCHANGED resp
       \/ /\ PredictReturn(PredictExcept)
          /\ UNCHANGED << f, created >>
    /\ UNCHANGED << req, read, audio_data, temp_file, ingested, modelCalls, loadVars, ping, provVars, fnVars >>

\* lines 114-115
PredictWrite ==
    /\ pc = "write" /\ req.handler = "predict_fn"
    /\ \/ /\ temp_file' = f
          /\ pc' = "transcribe"
          /\ UNCHANGED << resp, disk >>
       \/ /\ UNCHANGED temp_file
          /\ PredictReturn(PredictExcept)
    /\ UNCHANGED << req, read, audio_data, f, created, ingested, modelCalls, loadVars, ping, provVars, fnVars >>

\* lines 118-134 on what model.transcribe returned: the timestamp attribute
\* goes into the result as it is
PredictResult(ts, o) ==
    IF Truthy(ts) THEN
        IF o \in {"raise", "str", "hyp_no_ts"}
        THEN PredictExcept
        ELSE Result({"text", "timestamps", "processing_time", "model"},
                    CASE o \in {"hyp_words", "hyp_words_dict", "hyp_words_empty"} -> "words"
                      [] o = "hyp_ts_noword" -> "noword"
                      [] o = "hyp_ts_none" -> "none",
                    "")
    ELSE
        IF o = "raise"
        THEN PredictExcept
        ELSE Result({"text", "processing_time", "model"}, "absent", "")

\* lines 117-142: model is the argument, the model model_fn returned
PredictTranscribe ==
    /\ pc = "transcribe" /\ req.handler = "predict_fn"
    /\ modelCalls' = modelCalls + 1
    /\ \E o \in TranscribeOutcomes :
         PredictReturn(PredictResult(req.body.timestamps, o))
    /\ UNCHANGED << req, read, audio_data, f, temp_file, created, ingested, loadVars, ping, provVars, fnVars >>

\* ------------------------------------------------------------------------
\* inference.py: model_fn, called by the model server when a worker starts
\* ------------------------------------------------------------------------
InitFn ==
    /\ mPc = "idle"
    /\ mCalls = 0
    /\ fn_model = 0
    /\ fn_f = "none"
    /\ fn_warmup = "none"

\* lines 24-29: no guard, every call loads again
ModelFnCall ==
    /\ mPc \in {"idle", "returned"}
    /\ mCalls < 1 + MaxReloads
    /\ mCalls' = mCalls + 1
    /\ mPc' = "fetch"
    /\ fn_f' = "none"
    /\ fn_warmup' = "none"
    /\ UNCHANGED << fn_model, serveVars, provVars >>

\* lines 32-36: from_pretrained, to(device), eval; an exception leaves
\* model_fn
ModelFnFetch ==
    /\ mPc = "fetch"
    /\ \E o \in {"ok", "fetch_raises", "to_raises"} :
         /\ fn_model' = IF o = "fetch_raises" THEN fn_model ELSE mCalls
         /\ mPc' = IF o = "ok" THEN "mktemp" ELSE "raised"
    /\ UNCHANGED << mCalls, fn_f, fn_warmup, serveVars, provVars >>

\* lines 40-41: NamedTemporaryFile(suffix=".wav", delete=False)
ModelFnMkTemp ==
    /\ mPc = "mktemp"
    /\ \/ /\ fn_f' = "on_disk"
          /\ mPc' = "write"
       \/ /\ mPc' = "raised"
          /\ UNCHANGED fn_f
    /\ UNCHANGED << mCalls, fn_model, fn_warmup, serveVars, provVars >>

\* lines 42-43: import soundfile and sf.write stand before the try: an
\* exception closes the file, which delete=False leaves on disk, and leaves
\* model_fn
ModelFnWrite ==
    /\ mPc = "write"
    /\ \/ /\ mPc' = "transcribe"
          /\ UNCHANGED fn_warmup
       \/ /\ mPc' = "raised"
          /\ fn_warmup' = "failed"
    /\ UNCHANGED << mCalls, fn_model, fn_f, serveVars, provVars >>

\* lines 44-47: an exception of the transcription is dropped
ModelFnTranscribe ==
    /\ mPc = "transcribe"
    /\ \E o \in {"ok", "transcribe_raises"} :
         fn_warmup' = IF o = "ok" THEN "complete" ELSE "failed"
    /\ mPc' = "unlink"
    /\ UNCHANGED << mCalls, fn_model, fn_f, serveVars, provVars >>

\* lines 48-51
ModelFnUnlink ==
    /\ mPc = "unlink"
    /\ fn_f' = "removed"
    /\ mPc' = "returned"
    /\ UNCHANGED << mCalls, fn_model, fn_warmup, serveVars, provVars >>

\* ------------------------------------------------------------------------
\* deploy_parakeet.py: the cloud, deploy() and cleanup()
\* ------------------------------------------------------------------------
\* WaiterConfig of deploy's endpoint_in_service waiter (line 81)
Delay == 30
MaxAttempts == 60
\* the endpoint_deleted waiter runs with the SDK's own number of attempts
DeletedMaxAttempts == 60

\* Resource i is the model, the configuration and the endpoint that the
\* i-th deploy() named with its timestamp: the configuration refers to the
\* model and the endpoint to the configuration.
NoResource == [model |-> FALSE, config |-> FALSE, endpoint |-> "absent"]

InitProv ==
    /\ cloud = [i \in 1..MaxDeploys |-> NoResource]
    /\ deploys = 0
    /\ dPc = "idle" /\ dId = 0 /\ dAttempts = 0 /\ dCreated = 0
    /\ dCalls = << >> /\ dResult = 0
    /\ cPc = "idle" /\ cTarget = 0 /\ config_name = 0 /\ model_name = 0
    /\ cAttempts = 0 /\ cCalls = << >>
    /\ lPc = "idle" /\ endpoints = {}

deployVars == << dPc, dId, dAttempts, dCreated, dCalls, dResult >>
cleanupVars == << cPc, cTarget, config_name, model_name, cAttempts, cCalls >>
listVars == << lPc, endpoints >>

\* the script runs one command per process, one process at a time
NoProcess ==
    /\ dPc \in {"idle", "done", "raised"}
    /\ cPc \in {"idle", "done", "failed"}
    /\ lPc \in {"idle", "done", "raised"}

\* the endpoint's creation and deletion as the cloud carries them out
CloudEndpointInService ==
    /\ \E i \in 1..MaxDeploys :
         /\ cloud[i].endpoint = "Creating"
         /\ cloud' = [cloud EXCEPT ![i].endpoint = "InService"]
    /\ UNCHANGED << deploys, deployVars, cleanupVars, listVars, serveVars, fnVars >>

CloudEndpointFailed ==
    /\ \E i \in 1..MaxDeploys :
         /\ cloud[i].endpoint \in {"Creating", "Deleting"}
         /\ cloud' = [cloud EXCEPT ![i].endpoint = "Failed"]
    /\ UNCHANGED << deploys, deployVars, cleanupVars, listVars, serveVars, fnVars >>

CloudEndpointRemoved ==
    /\ \E i \in 1..MaxDeploys :
         /\ cloud[i].endpoint = "Deleting"
         /\ cloud' = [cloud EXCEPT ![i].endpoint = "absent"]
    /\ UNCHANGED << deploys, deployVars, cleanupVars, listVars, serveVars, fnVars >>

\* lines 20-37: the names of this run
DeployStart ==
    /\ NoProcess
    /\ deploys < MaxDeploys
    /\ deploys' = deploys + 1
    /\ dId' = deploys + 1
    /\ dPc' = "create_model"
    /\ dAttempts' = 0 /\ dCreated' = 0 /\ dCalls' = << >> /\ dResult' = 0
    /\ cPc' = "idle" /\ cTarget' = 0 /\ config_name' = 0 /\ model_name' = 0
    /\ cAttempts' = 0 /\ cCalls' = << >>
    /\ lPc' = "idle" /\ endpoints' = {}
    /\ UNCHANGED << cloud, serveVars, fnVars >>

\* an exception of a management call leaves deploy(): nothing catches it
DeployRaise == dPc' = "raised" /\ UNCHANGED << cloud, dCreated, dResult >>

\* lines 41-52
DeployCreateModel ==
    /\ dPc = "create_model"
    /\ dCalls' = Append(dCalls, "create_model")
    /\ \/ /\ ~cloud[dId].model
          /\ cloud' = [cloud EXCEPT ![dId].model = TRUE]
          /\ dCreated' = dCreated + 1
          /\ dPc' = "create_endpoint_config"
          /\ UNCHANGED dResult
       \/ DeployRaise
    /\ UNCHANGED << deploys, dId, dAttempts, cleanupVars, listVars, serveVars, fnVars >>

\* lines 56-66
DeployCreateConfig ==
    /\ dPc = "create_endpoint_config"
    /\ dCalls' = Append(dCalls, "create_endpoint_config")
    /\ \/ /\ cloud[dId].model /\ ~cloud[dId].config
          /\ cloud' = [cloud EXCEPT ![dId].config = TRUE]
          /\ dCreated' = dCreated + 1
          /\ dPc' = "create_endpoint"
          /\ UNCHANGED dResult
       \/ DeployRaise
    /\ UNCHANGED << deploys, dId, dAttempts, cleanupVars, listVars, serveVars, fnVars >>

\* lines 71-74
DeployCreateEndpoint ==
    /\ dPc = "create_endpoint"
    /\ dCalls' = Append(dCalls, "create_endpoint")
    /\ \/ /\ cloud[dId].config /\ cloud[dId].endpoint = "absent"
          /\ cloud' = [cloud EXCEPT ![dId].endpoint = "Creating"]
          /\ dCreated' = dCreated + 1
          /\ dPc' = "wait"
          /\ UNCHANGED dResult
       \/ DeployRaise
    /\ UNCHANGED << deploys, dId, dAttempts, cleanupVars, listVars, serveVars, fnVars >>

\* a wait that takes a Failed endpoint for a ready one
DeployWaitTakesFailed ==
    /\ dPc = "wait"
    /\ dAttempts' = dAttempts + 1
    /\ \/ /\ cloud[dId].endpoint \in {"InService", "Failed"}
          /\ dPc' = "done"
          /\ dResult' = dId
          /\ dCalls' = Append(dCalls, "endpoint_in_service")
       \/ /\ dPc' = "raised"
          /\ UNCHANGED << dResult, dCalls >>
       \/ /\ cloud[dId].endpoint \notin {"InService", "Failed", "absent"}
          /\ dAttempts + 1 < MaxAttempts
          /\ UNCHANGED << dPc, dResult, dCalls >>
    /\ UNCHANGED << cloud, deploys, dId, dCreated, cleanupVars, listVars, serveVars, fnVars >>

\* lines 78-93: one attempt of the endpoint_in_service waiter, which
\* describes the endpoint.  InService ends the wait and deploy() returns the
\* endpoint's name.  The waiter raises on Failed, on a missing endpoint, on
\* any other error of the call and after its last attempt: the call may
\* fail at any attempt.  Otherwise it sleeps Delay seconds and tries again.
DeployWait ==
    /\ dPc = "wait"
    /\ dAttempts' = dAttempts + 1
    /\ \/ /\ cloud[dId].endpoint = "InService"
          /\ dPc' = "done"
          /\ dResult' = dId
          /\ dCalls' = Append(dCalls, "endpoint_in_service")
       \/ /\ dPc' = "raised"
          /\ UNCHANGED << dResult, dCalls >>
       \/ /\ cloud[dId].endpoint \notin {"InService", "Failed", "absent"}
          /\ dAttempts + 1 < MaxAttempts
          /\ UNCHANGED << dPc, dResult, dCalls >>
    /\ UNCHANGED << cloud, deploys, dId, dCreated, cleanupVars, listVars, serveVars, fnVars >>

\* lines 96-100
CleanupStart ==
    /\ NoProcess
    /\ \E e \in 1..MaxDeploys : cTarget' = e
    /\ cPc' = "describe_endpoint"
    /\ config_name' = 0 /\ model_name' = 0 /\ cAttempts' = 0 /\ cCalls' = << >>
    /\ dPc' = "idle" /\ dId' = 0 /\ dAttempts' = 0 /\ dCreated' = 0
    /\ dCalls' = << >> /\ dResult' = 0
    /\ lPc' = "idle" /\ endpoints' = {}
    /\ UNCHANGED << cloud, deploys, serveVars, fnVars >>

\* lines 129-130: the exception is printed and cleanup() returns
CleanupExcept == cPc' = "failed" /\ UNCHANGED << cloud, config_name, model_name >>

\* lines 104-105
CleanupDescribeEndpoint ==
    /\ cPc = "describe_endpoint"
    /\ cCalls' = Append(cCalls, "describe_endpoint")
    /\ \/ /\ cloud[cTarget].endpoint # "absent"
          /\ config_name' = cTarget
          /\ cPc' = "describe_endpoint_config"
          /\ UNCHANGED << cloud, model_name >>
       \/ CleanupExcept
    /\ UNCHANGED << deploys, cTarget, cAttempts, deployVars, listVars, serveVars, fnVars >>

\* lines 107-108
CleanupDescribeConfig ==
    /\ cPc = "describe_endpoint_config"
    /\ cCalls' = Append(cCalls, "describe_endpoint_config")
    /\ \/ /\ cloud[config_name].config
          /\ model_name' = config_name
          /\ cPc' = "delete_endpoint"
          /\ UNCHANGED << cloud, config_name >>
       \/ CleanupExcept
    /\ UNCHANGED << deploys, cTarget, cAttempts, deployVars, listVars, serveVars, fnVars >>

\* lines 111-112
CleanupDeleteEndpoint ==
    /\ cPc = "delete_endpoint"
    /\ cCalls' = Append(cCalls, "delete_endpoint")
    /\ \/ /\ cloud[cTarget].endpoint \notin {"absent", "Deleting"}
          /\ cloud' = [cloud EXCEPT ![cTarget].endpoint = "Deleting"]
          /\ cPc' = "wait"
          /\ UNCHANGED << config_name, model_name >>
       \/ CleanupExcept
    /\ UNCHANGED << deploys, cTarget, cAttempts, deployVars, listVars, serveVars, fnVars >>

\* a cleanup that does not wait for the endpoint to go
CleanupNoWait ==
    /\ cPc = "wait"
    /\ cAttempts' = cAttempts + 1
    /\ cPc' = "delete_endpoint_config"
    /\ cCalls' = Append(cCalls, "endpoint_deleted")
    /\ UNCHANGED << cloud, deploys, cTarget, config_name, model_name,
                    deployVars, listVars, serveVars, fnVars >>

\* lines 116-117: one attempt of the endpoint_deleted waiter.  The endpoint
\* being gone ends the wait.  The waiter raises on Failed, on any other
\* error of the call and after its last attempt: the call may fail at any
\* attempt.  Otherwise it sleeps and tries again.
CleanupWait ==
    /\ cPc = "wait"
    /\ cAttempts' = cAttempts + 1
    /\ \/ /\ cloud[cTarget].endpoint = "absent"
          /\ cPc' = "delete_endpoint_config"
          /\ cCalls' = Append(cCalls, "endpoint_deleted")
       \/ /\ cPc' = "failed"
          /\ UNCHANGED cCalls
       \/ /\ cloud[cTarget].endpoint \notin {"absent", "Failed"}
          /\ cAttempts + 1 < DeletedMaxAttempts
          /\ UNCHANGED << cPc, cCalls >>
    /\ UNCHANGED << cloud, deploys, cTarget, config_name, model_name,
                    deployVars, listVars, serveVars, fnVars >>

\* lines 120-121
CleanupDeleteConfig ==
    /\ cPc = "delete_endpoint_config"
    /\ cCalls' = Append(cCalls, "delete_endpoint_config")
    /\ \/ /\ cloud[config_name].config
          /\ cloud' = [cloud EXCEPT ![config_name].config = FALSE]
          /\ cPc' = "delete_model"
          /\ UNCHANGED << config_name, model_name >>
       \/ CleanupExcept
    /\ UNCHANGED << deploys, cTarget, cAttempts, deployVars, listVars, serveVars, fnVars >>

\* lines 124-127
CleanupDeleteModel ==
    /\ cPc = "delete_model"
    /\ cCalls' = Append(cCalls, "delete_model")
    /\ \/ /\ cloud[model_name].model
          /\ cloud' = [cloud EXCEPT ![model_name].model = FALSE]
          /\ cPc' = "done"
          /\ UNCHANGED << config_name, model_name >>
       \/ CleanupExcept
    /\ UNCHANGED << deploys, cTarget, cAttempts, deployVars, listVars, serveVars, fnVars >>

\* ------------------------------------------------------------------------
\* lines 133-135
ListStart ==
    /\ NoProcess
    /\ lPc' = "list_endpoints"
    /\ endpoints' = {}
    /\ dPc' = "idle" /\ dId' = 0 /\ dAttempts' = 0 /\ dCreated' = 0
    /\ dCalls' = << >> /\ dResult' = 0
    /\ cPc' = "idle" /\ cTarget' = 0 /\ config_name' = 0 /\ model_name' = 0
    /\ cAttempts' = 0 /\ cCalls' = << >>
    /\ UNCHANGED << cloud, deploys, serveVars, fnVars >>

\* lines 137-144: the endpoints that are InService are printed; an exception
\* of the call leaves list_endpoints(): nothing catches it
ListEndpoints ==
    /\ lPc = "list_endpoints"
    /\ \/ /\ endpoints' = { i \in 1..MaxDeploys : cloud[i].endpoint = "InService" }
          /\ lPc' = "done"
       \/ /\ lPc' = "raised"
          /\ UNCHANGED endpoints
    /\ UNCHANGED << cloud, deploys, deployVars, cleanupVars, serveVars, fnVars >>

\* ------------------------------------------------------------------------
\* Specifications
\* ------------------------------------------------------------------------
Init == InitServe /\ InitProv /\ InitFn

\* the inference service and the SageMaker handler
Next ==
    \/ LoadCall \/ LoadFetch \/ LoadWarmup \/ LoadFinish
    \/ health_check
    \/ Arrive \/ Reply
    \/ InvokeParse \/ InvokeParams \/ InvokeProcessAudio
    \/ InvokeMkTemp \/ InvokeWrite \/ InvokeTranscribe
    \/ InputFn \/ PredictParams \/ PredictDecode
    \/ PredictMkTemp \/ PredictWrite \/ PredictTranscribe

Spec == Init /\ [][Next]_vars

DeployStep ==
    \/ DeployCreateModel \/ DeployCreateConfig \/ DeployCreateEndpoint
    \/ DeployWait

CleanupStep ==
    \/ CleanupDescribeEndpoint \/ CleanupDescribeConfig
    \/ CleanupDeleteEndpoint \/ CleanupWait
    \/ CleanupDeleteConfig \/ CleanupDeleteModel

\* the provisioning client against the cloud
NextProvision ==
    \/ CloudEndpointInService \/ CloudEndpointFailed \/ CloudEndpointRemoved
    \/ DeployStart \/ DeployCreateModel \/ DeployCreateConfig
    \/ DeployCreateEndpoint \/ DeployWait
    \/ CleanupStart \/ CleanupDescribeEndpoint \/ CleanupDescribeConfig
    \/ CleanupDeleteEndpoint \/ CleanupWait
    \/ CleanupDeleteConfig \/ CleanupDeleteModel
    \/ ListStart \/ ListEndpoints

\* a running deploy() or cleanup() takes its next step: its calls return
Provision ==
    /\ Init
    /\ [][NextProvision]_vars
    /\ WF_vars(DeployStep)
    /\ WF_vars(CleanupStep)

LoadStep == LoadFetch \/ LoadWarmup \/ LoadFinish

ModelFnStep ==
    \/ ModelFnFetch \/ ModelFnMkTemp \/ ModelFnWrite
    \/ ModelFnTranscribe \/ ModelFnUnlink

\* model loading in the HTTP service and in the SageMaker handler
NextLoading ==
    \/ LoadCall \/ LoadFetch \/ LoadWarmup \/ LoadFinish
    \/ health_check
    \/ ModelFnCall \/ ModelFnFetch \/ ModelFnMkTemp \/ ModelFnWrite
    \/ ModelFnTranscribe \/ ModelFnUnlink

\* a running load_model or model_fn takes its next step
Loading ==
    /\ Init
    /\ [][NextLoading]_vars
    /\ WF_vars(LoadStep)
    /\ WF_vars(ModelFnStep)

\* ------------------------------------------------------------------------
\* Properties
\* ------------------------------------------------------------------------
Returned == pc = "done"

ByInvoke == req.handler = "invoke"

\* C1: a POST /invocations whose JSON body has no audio field, or a falsy
\* one, is answered 400 with an error key, also when the body is a JSON
\* value that is no object.
C1_MissingAudioIs400 ==
    ( /\ Returned /\ ByInvoke
      /\ req.content_type = JsonType
      /\ req.body.k # "invalid"
      /\ (req.body.k # "object" \/ Falsy(req.body.audio)) )
    => (resp.status = 400 /\ "error" \in resp.keys)

\* C2: when the audio value is the string base64(b), bare or behind a
\* data-URL prefix, audio ingestion produces exactly the bytes b.
C2_DecodeRoundTrip ==
    ( /\ ingested
      /\ req.body.audio.t = "str"
      /\ req.body.audio.enc \in {"bare", "dataurl"} )
    => audio_data = Bytes(req.body.audio.orig)

\* C3: once a request has returned, no temporary file it created is on disk.
C3_NoTempFileLeft == Returned => created \cap disk = {}

\* C4: a response to a request with timestamps false or absent has no
\* timestamps key, and a response to a request with timestamps true has a
\* timestamps key holding a (possibly empty) word sequence, from invoke and
\* from predict_fn.  Stated for the responses that carry a transcript and
\* for every response to a request without the flag (error responses never
\* carry a timestamps key).
C4_TimestampsKey ==
    ( /\ Returned
      /\ resp.kind \in {"http", "dict"}
      /\ req.body.k = "object" )
    => IF Truthy(req.body.timestamps)
       THEN "text" \in resp.keys => ("timestamps" \in resp.keys /\ resp.ts = "words")
       ELSE "timestamps" \notin resp.keys

\* C5: a POST /invocations whose content type is not application/json is
\* answered 415, and nothing is ingested, no temporary file is created and
\* the model is not called on the way; input_fn likewise raises before
\* predict_fn is reached.
C5_UnsupportedTypeIs415 ==
    ( req.handler # "none" /\ req.content_type # JsonType )
    => /\ pc \in {"parse", "done"}
       /\ ~ingested /\ audio_data = None /\ read = "none"
       /\ created = {} /\ f = NoFile /\ temp_file = NoFile
       /\ modelCalls = 0
       /\ Returned => IF ByInvoke
                      THEN resp.status = 415 /\ resp.keys = {"error"}
                      ELSE resp = Raised

C5_Witness ==
    /\ Returned /\ ByInvoke
    /\ req.content_type = "text/plain"
    /\ req.body = Body("object", Str(<<"A","A","=","=">>), "false")
    /\ resp.status = 415

\* C6: GET /ping answers 503 until load_model has completed and 200 from
\* then on; once model_loaded is true no step sets it back or replaces the
\* model.
C6_PingReadiness ==
    /\ [](model_loaded <=> LoadCompleted)
    /\ [](ping.status # 0 => (ping.status = IF ping.completed THEN 200 ELSE 503))
    /\ [][model_loaded => (model_loaded' /\ model' = model)]_vars

C6_Witness ==
    /\ ping = [status |-> 200, completed |-> TRUE]
    /\ loadCalls = 2 /\ loadPc = "returned"
    /\ model = 1 /\ model_loaded

\* audio values whose ingestion fails however the file system and the
\* network answer: base64 that b64decode refuses, values of a wrong type
MalformedAudio ==
    { Str(<<"a","b","c">>), Str(<<"a">>), Str(<<"U+00E9">>),
      Str(DataPrefix \o <<"x","x">>),
      Plain("number"), Plain("list"),
      Dict("other", FALSE, << >>), Dict("data", FALSE, << >>),
      Dict("data", TRUE, <<"a","b","c">>),
      Dict("data", TRUE, DataPrefix \o <<"x","x">>),
      Dict("path", FALSE, << >>) }

IngestFailed ==
    /\ ingested
    /\ \/ req.body.audio \in MalformedAudio
       \/ read = "failed"
       \/ audio_data = None

InvokeStep ==
    \/ InvokeParse \/ InvokeParams \/ InvokeProcessAudio
    \/ InvokeMkTemp \/ InvokeWrite \/ InvokeTranscribe

\* C8: every POST /invocations, whatever the input and whether the model is
\* loaded or not, runs on to one response with status 200, 400, 415 or 500;
\* an exception becomes a response whose body is the error alone, and a 200
\* response carries no error key.  predict_fn turns its exceptions into an
\* error result as well.
C8_AlwaysOneResponse ==
    /\ (ByInvoke /\ ~Returned) => (resp = NoResponse /\ ENABLED InvokeStep)
    /\ (ByInvoke /\ Returned) =>
          /\ resp.kind = "http"
          /\ resp.status \in {200, 400, 415, 500}
          /\ resp.status = 200 => ("error" \notin resp.keys /\ "text" \in resp.keys)
          /\ resp.status # 200 => resp.keys = {"error"}
          /\ resp.err = "exception" => resp.status = 500
    /\ (req.handler = "predict_fn" /\ Returned /\ resp.kind # "dict") =>
          (req.content_type # JsonType \/ req.body.k = "invalid")
    /\ (req.handler = "predict_fn" /\ Returned /\ resp.kind = "dict") =>
          ("error" \in resp.keys <=> "text" \notin resp.keys)

C8_Witness ==
    /\ Returned /\ ByInvoke
    /\ model # 0 /\ modelCalls = 1
    /\ temp_file # NoFile
    /\ resp = InvokeExcept

IsPrefix(s, full) == Len(s) <= Len(full) /\ SubSeq(full, 1, Len(s)) = s

CleanupOrder ==
    << "describe_endpoint", "describe_endpoint_config", "delete_endpoint",
       "endpoint_deleted", "delete_endpoint_config", "delete_model" >>

\* C9: cleanup() issues its calls in the order resolve, delete the endpoint,
\* wait for its removal, delete the configuration, delete the model, each at
\* most once; a configuration is deleted only after the endpoint was seen
\* removed and a model only after the configuration was deleted; after a
\* failure nothing more is called.
C9_CleanupOrder ==
    /\ [](IsPrefix(cCalls, CleanupOrder))
    /\ [](Contains(cCalls, "delete_endpoint_config") =>
             (Contains(cCalls, "endpoint_deleted") /\ cloud[cTarget].endpoint = "absent"))
    /\ [][\A i \in 1..MaxDeploys :
            /\ (cloud[i].config /\ ~cloud'[i].config) =>
                  /\ cPc = "delete_endpoint_config" /\ i = config_name
                  /\ cCalls = SubSeq(CleanupOrder, 1, 4)
                  /\ cloud[cTarget].endpoint = "absent"
            /\ (cloud[i].model /\ ~cloud'[i].model) =>
                  /\ cPc = "delete_model" /\ i = model_name
                  /\ cCalls = SubSeq(CleanupOrder, 1, 5)
                  /\ ~cloud[config_name].config]_vars
    /\ [][cPc = "failed" => (cCalls' = cCalls \/ cCalls' = << >>)]_vars

C9_Witness ==
    /\ cPc = "done"
    /\ cCalls = CleanupOrder
    /\ cAttempts > 1
    /\ cloud[cTarget] = NoResource

DeployOrder ==
    << "create_model", "create_endpoint_config", "create_endpoint",
       "endpoint_in_service" >>

DeployRunning == dPc \in {"create_model", "create_endpoint_config", "create_endpoint", "wait"}

\* C10: deploy() creates the model, then the configuration, then the
\* endpoint, each only after the one before succeeded; it polls at most
\* MaxAttempts times, Delay seconds apart, and so always ends; it returns the
\* endpoint's name only when it saw the endpoint InService; what it created
\* stays when a step or the poll fails.
C10_DeployOrder ==
    /\ [](/\ IsPrefix(dCalls, DeployOrder)
          /\ Len(dCalls) <= dCreated + 1
          /\ dAttempts <= MaxAttempts
          /\ Delay * dAttempts <= Delay * MaxAttempts
          /\ dAttempts > 0 => dCreated = 3
          /\ dPc = "done" <=> dResult # 0
          /\ dPc = "done" =>
                (dResult = dId /\ dCalls = DeployOrder /\ cloud[dId].endpoint = "InService")
          /\ dPc # "idle" =>
                /\ cloud[dId].model = (dCreated >= 1)
                /\ cloud[dId].config = (dCreated >= 2)
                /\ (cloud[dId].endpoint # "absent") = (dCreated >= 3))
    /\ DeployRunning ~> (dPc \in {"done", "raised"})

C10_Witness ==
    /\ dPc = "raised"
    /\ dAttempts = MaxAttempts
    /\ dCreated = 3
    /\ cloud[dId] = [model |-> TRUE, config |-> TRUE, endpoint |-> "Creating"]

\* C11: in deploy, cleanup and list_endpoints a failing cloud management call
\* is caught and printed by the operation itself, which then returns
\* normally: no exception leaves any of the three.  (cleanup ends in
\* "failed" when its except block printed the error.)
C11_ErrorsCaught ==
    /\ dPc # "raised"
    /\ cPc \in {"idle", "describe_endpoint", "describe_endpoint_config",
                "delete_endpoint", "wait", "delete_endpoint_config",
                "delete_model", "done", "failed"}
    /\ lPc # "raised"

\* C12: once the fetch, the device move and the eval step have succeeded,
\* loading ends normally with the model installed, whether the warm-up (the
\* synthetic file written, then transcribed) succeeded or raised: load_model
\* returns with model_loaded set and model_fn returns the model it fetched;
\* and a load_model call made when ready returns the model it finds and
\* neither fetches nor warms up.  For model_fn the warm-up is taken from the
\* write of the file on.
C12_WarmupNonFatal ==
    /\ [](loadPc = "returned" => (model_loaded /\ model # 0))
    /\ [](model_loaded => loadPc = "returned")
    /\ [](mPc = "returned" => fn_model = mCalls)
    /\ [][(loadPc \in {"warmup", "set"}) => loadPc' # "raised"]_vars
    /\ [][(mPc \in {"write", "transcribe", "unlink"}) => mPc' # "raised"]_vars
    /\ [][(model_loaded /\ loadCalls' # loadCalls) =>
            (loadPc' = "returned" /\ model' = model /\ warmup' = warmup)]_vars
    /\ (loadPc = "warmup") ~> (loadPc = "returned" /\ model_loaded)
    /\ (mPc = "write") ~> (mPc = "returned")

=============================================================================
